---- MODULE Spec2Model ----
(***************************************************************************)
(* Model of streamlit_bulk_replace.py: one run of the script on an         *)
(* uploaded archive.  Names and file texts are sequences of characters,    *)
(* a relative path is a sequence of names, and a directory tree is a       *)
(* function from the relative paths below its root to entries.             *)
(***************************************************************************)
EXTENDS Integers, Sequences, FiniteSets, TLC

(* ------------------------------ bounds -------------------------------- *)

\* Largest number of entries (files and directories) in the uploaded archive.
MaxEntries == 2

\* Largest number of injected I/O failures (rename or write) in one run.
MaxFaults == 1

(* ------------------------- strings (str, pathlib) --------------------- *)

\* s[i..] starts with p
MatchAt(s, p, i) ==
    /\ i + Len(p) - 1 <= Len(s)
    /\ \A k \in 1..Len(p) : s[i + k - 1] = p[k]

\* Python's "sub in s"
Contains(s, sub) == \E i \in 1..(Len(s) + 1) : MatchAt(s, sub, i)

DropFirst(s, n) == SubSeq(s, n + 1, Len(s))

\* A plausible slip: only the first occurrence is replaced (str.replace(o, n, 1)).
RECURSIVE ReplaceFirstOnly(_, _, _)
ReplaceFirstOnly(s, o, n) ==
    IF Len(s) < Len(o) \/ o = <<>> THEN s
    ELSE IF MatchAt(s, o, 1) THEN n \o DropFirst(s, Len(o))
    ELSE <<Head(s)>> \o ReplaceFirstOnly(Tail(s), o, n)

\* s.replace("", n): n before every character and at the end
RECURSIVE Interleave(_, _)
Interleave(s, n) == IF s = <<>> THEN n ELSE n \o <<Head(s)>> \o Interleave(Tail(s), n)

\* Python's s.replace(o, n): scan from the left, replace each occurrence
\* found and continue after it.
RECURSIVE Replace(_, _, _)
Replace(s, o, n) ==
    IF o = <<>> THEN Interleave(s, n)
    ELSE IF Len(s) < Len(o) THEN s
    ELSE IF MatchAt(s, o, 1) THEN n \o Replace(DropFirst(s, Len(o)), o, n)
    ELSE <<Head(s)>> \o Replace(Tail(s), o, n)

\* p.name, p.parent, p.with_name(n) on relative paths
Name(p) == p[Len(p)]
Parent(p) == SubSeq(p, 1, Len(p) - 1)

\* with_name raises ValueError for an empty name or "."
ValidName(n) == n # <<>> /\ n # <<".">>

\* A plausible slip: the new name is appended below the source, not beside it.
WithNameBelow(p, n) == p \o <<n>>

WithName(p, n) == Parent(p) \o <<n>>

\* PurePath.suffix: from the last dot of the name, unless that dot is the
\* first or the last character.
LastDot(n) ==
    LET D == {i \in 1..Len(n) : n[i] = "."}
    IN  IF D = {} THEN 0 ELSE CHOOSE i \in D : \A j \in D : j <= i

Suffix(n) ==
    LET i == LastDot(n)
    IN  IF i > 1 /\ i < Len(n) THEN SubSeq(n, i, Len(n)) ELSE <<>>

\* len(str(p)) up to the constant length of str(extract_dir): every segment
\* adds a separator and its characters.
RECURSIVE StrLen(_)
StrLen(p) == IF p = <<>> THEN 0 ELSE 1 + Len(Head(p)) + StrLen(Tail(p))

\* a is p or an ancestor of p
IsPrefix(a, p) == Len(a) <= Len(p) /\ SubSeq(p, 1, Len(a)) = a

(* ------------------------------ constants ----------------------------- *)

ALLOWED_SUFFIXES ==
    { <<".", "j", "s", "o", "n">>, <<".", "l", "o", "g">>, <<".", "l", "o", "c", "k">>,
      <<".", "t", "x", "t">>, <<".", "m", "d">> }

\* The multiselect offers the subsets of ALLOWED_SUFFIXES; the model draws
\* from the default (all) and from the selection without ".md".
SuffixChoices == { ALLOWED_SUFFIXES, ALLOWED_SUFFIXES \ { <<".", "m", "d">> } }

\* Values typed into the confirmation field.
ConfirmWords == { "APPLY", "apply", "" }

extract_dir == "extracted"

work_dir == "work"

(* ------------------------ the inputs of a run -------------------------- *)

\* A vocabulary: the pair old/new, the names that entries of the archive
\* may carry and the texts that its files may hold.
Vocabularies ==
    { \* plain replacement, collisions with an existing name
      [ old |-> <<"a">>, new |-> <<"b">>,
        names |-> { <<"a">>, <<"b">>, <<"a", ".", "m", "d">>, <<"b", ".", "m", "d">> },
        texts |-> { <<"a", "b", "a">>, <<"b">> } ],
      \* overlapping and repeated occurrences; a destination that is itself a
      \* candidate; two candidates with one destination
      [ old |-> <<"a", "a">>, new |-> <<"a">>,
        names |-> { <<"a", "a", "a", "a">>, <<"a", "a", "a">>, <<"a", "a">>,
                    <<"a", "a", ".", "m", "d">> },
        texts |-> { <<"a", "a", "a">> } ],
      \* empty replacement; a rename that changes the suffix
      [ old |-> <<"a">>, new |-> <<>>,
        names |-> { <<"a">>, <<"a", ".", "m", "d">>, <<"b", ".", "m", "a", "d">> },
        texts |-> { <<"a", "b">> } ],
      \* the search field left empty
      [ old |-> <<>>, new |-> <<"b">>,
        names |-> { <<"a", ".", "m", "d">> },
        texts |-> { <<"a">> } ],
      \* words: foo_old.json holding {"name":"old"}, old_dir, a, old.txt
      [ old |-> <<"o", "l", "d">>, new |-> <<"n", "e", "w">>,
        names |-> { <<"f", "o", "o", "_", "o", "l", "d", ".", "j", "s", "o", "n">>,
                    <<"o", "l", "d", "_", "d", "i", "r">>,
                    <<"a">>,
                    <<"o", "l", "d", ".", "t", "x", "t">> },
        texts |-> { <<"{", "\"", "n", "a", "m", "e", "\"", ":", "\"", "o", "l", "d", "\"", "}">> } ] }

File(text, utf8, p) == [kind |-> "file", data |-> text, utf8 |-> utf8, orig |-> p]
Dir(p) == [kind |-> "dir", data |-> <<>>, utf8 |-> TRUE, orig |-> p]

EmptyTree == [p \in {} |-> Dir(<<>>)]

IsDir(t, p) == p \in DOMAIN t /\ t[p].kind = "dir"
IsFile(t, p) == p \in DOMAIN t /\ t[p].kind = "file"

\* The entries that can be put at path p: a directory, a text file, or a
\* file whose bytes are not valid UTF-8.  orig records where the entry was
\* at extraction, so that it can be followed through renames.
Leaves(v, p) ==
    {Dir(p)} \cup {File(x, TRUE, p) : x \in v.texts} \cup {File(<<>>, FALSE, p)}

Slots(v, t) ==
    {d \o <<n>> : d \in {<<>>} \cup {q \in DOMAIN t : t[q].kind = "dir"}, n \in v.names}
        \ DOMAIN t

RECURSIVE TreesUpTo(_, _)
TreesUpTo(v, k) ==
    IF k = 0 THEN {EmptyTree}
    ELSE LET S == TreesUpTo(v, k - 1)
         IN  S \cup UNION { UNION { { t @@ (p :> e) : e \in Leaves(v, p) } : p \in Slots(v, t) }
                            : t \in S }

(* ------------------------------- state -------------------------------- *)

VARIABLES
    upload,                   \* the tree packed in the uploaded archive
    valid_zip,                \* the uploaded bytes are a ZIP archive
    old, new,                 \* the two text inputs
    suffixes,                 \* the selected suffixes
    fs,                       \* the directories below tmpdir: name -> tree
    content_candidates,       \* results of the scan (paths below extract_dir)
    file_rename_candidates,
    folder_rename_candidates,
    do_rename_files, do_rename_folders, do_change_contents,
    confirm_word,             \* text of the confirmation field
    pressed,                  \* the user tried to press the Apply button
    apply_button,             \* value returned by st.button
    files_sorted, folders_sorted,   \* what is left of the two rename loops
    visited,                  \* files already rewritten or failed in the content loop
    changed,
    log_lines,
    faults,                   \* I/O failures injected so far
    out_zip,                  \* entries of the output archive
    pc

vars == << upload, valid_zip, old, new, suffixes, fs, content_candidates,
           file_rename_candidates, folder_rename_candidates,
           do_rename_files, do_rename_folders, do_change_contents,
           confirm_word, pressed, apply_button, files_sorted, folders_sorted,
           visited, changed, log_lines, faults, out_zip, pc >>

Init ==
    /\ \E v \in Vocabularies :
          /\ old = v.old
          /\ new = v.new
          /\ \/ valid_zip = TRUE /\ upload \in TreesUpTo(v, MaxEntries)
             \/ valid_zip = FALSE /\ upload = EmptyTree
    /\ suffixes \in SuffixChoices
    /\ fs = EmptyTree
    /\ content_candidates = {}
    /\ file_rename_candidates = {}
    /\ folder_rename_candidates = {}
    /\ do_rename_files = FALSE
    /\ do_rename_folders = FALSE
    /\ do_change_contents = FALSE
    /\ confirm_word = ""
    /\ pressed = FALSE
    /\ apply_button = FALSE
    /\ files_sorted = <<>>
    /\ folders_sorted = <<>>
    /\ visited = {}
    /\ changed = 0
    /\ log_lines = <<>>
    /\ faults = 0
    /\ out_zip = {}
    /\ pc = "start"

(* ------------------------- extraction and scan ------------------------ *)

\* A plausible slip: the check of the search field is left out.
OldMissingNever(o) == FALSE

\* line 41: not old
OldMissing(o) == o = <<>>

\* lines 38-46: the inputs are read; an empty search field ends the run
CheckOld ==
    /\ pc = "start"
    /\ pc' = IF OldMissing(old) THEN "rejected" ELSE "extract"
    /\ UNCHANGED << upload, valid_zip, old, new, suffixes, fs, content_candidates,
                    file_rename_candidates, folder_rename_candidates,
                    do_rename_files, do_rename_folders, do_change_contents,
                    confirm_word, pressed, apply_button, files_sorted,
                    folders_sorted, visited, changed, log_lines, faults, out_zip >>

\* lines 50-63: the temporary directory and extract_dir are made and the
\* archive is unpacked into extract_dir; bytes that are no archive end the run
Extract ==
    /\ pc = "extract"
    /\ fs' = (extract_dir :> upload)
    /\ pc' = IF valid_zip THEN "scan" ELSE "badzip"
    /\ UNCHANGED << upload, valid_zip, old, new, suffixes, content_candidates,
                    file_rename_candidates, folder_rename_candidates,
                    do_rename_files, do_rename_folders, do_change_contents,
                    confirm_word, pressed, apply_button, files_sorted,
                    folders_sorted, visited, changed, log_lines, faults, out_zip >>

\* A plausible slip: the suffix selection is ignored.
ReadableMatchAnySuffix(t, p, sfx, o) ==
    /\ IsFile(t, p)
    /\ t[p].utf8
    /\ Contains(t[p].data, o)

\* line 79-85: the file is read and searched
ReadableMatch(t, p, sfx, o) ==
    /\ IsFile(t, p)
    /\ Suffix(Name(p)) \in sfx
    /\ t[p].utf8
    /\ Contains(t[p].data, o)

\* lines 73-77
RenamePairs(t, kind, o, n) ==
    { <<p, WithName(p, Replace(Name(p), o, n))>> :
        p \in {q \in DOMAIN t : Contains(Name(q), o) /\ t[q].kind = kind} }

\* with_name raises on the first matching entry whose new name is invalid
ScanRaises(t, o, n) ==
    \E p \in DOMAIN t : Contains(Name(p), o) /\ ~ValidName(Replace(Name(p), o, n))

\* lines 65-85: one traversal of extract_dir.  The lists are kept as sets:
\* their order is the traversal order, which the rename loops sort away.
Scan ==
    /\ pc = "scan"
    /\ IF ScanRaises(fs[extract_dir], old, new)
       THEN /\ pc' = "crashed"
            /\ UNCHANGED << content_candidates, file_rename_candidates,
                            folder_rename_candidates >>
       ELSE /\ pc' = "gate"
            /\ file_rename_candidates' = RenamePairs(fs[extract_dir], "file", old, new)
            /\ folder_rename_candidates' = RenamePairs(fs[extract_dir], "dir", old, new)
            /\ content_candidates' =
                  {p \in DOMAIN fs[extract_dir] :
                      ReadableMatch(fs[extract_dir], p, suffixes, old)}
    /\ UNCHANGED << upload, valid_zip, old, new, suffixes, fs,
                    do_rename_files, do_rename_folders, do_change_contents,
                    confirm_word, pressed, apply_button, files_sorted,
                    folders_sorted, visited, changed, log_lines, faults, out_zip >>

(* ------------------------------ the gate ------------------------------ *)

\* A plausible slip: the button is not disabled and answers every press.
ButtonAlwaysEnabled(press, disabled) == press

\* st.button(..., disabled=...): a disabled button cannot be pressed and
\* returns False.
Button(press, disabled) == press /\ ~disabled

\* lines 121-139: the three checkboxes (offered only for non-empty lists), the
\* confirmation field and the Apply button; the run stops unless it was pressed.
Gate ==
    /\ pc = "gate"
    /\ \E cf \in BOOLEAN, cd \in BOOLEAN, cc \in BOOLEAN :
          /\ do_rename_files' = (file_rename_candidates # {} /\ cf)
          /\ do_rename_folders' = (folder_rename_candidates # {} /\ cd)
          /\ do_change_contents' = (content_candidates # {} /\ cc)
    /\ confirm_word' \in ConfirmWords
    /\ pressed' \in BOOLEAN
    /\ apply_button' = Button(pressed', confirm_word' # "APPLY")
    /\ pc' = IF apply_button' THEN "copy" ELSE "stopped"
    /\ UNCHANGED << upload, valid_zip, old, new, suffixes, fs, content_candidates,
                    file_rename_candidates, folder_rename_candidates,
                    files_sorted, folders_sorted, visited, changed, log_lines,
                    faults, out_zip >>

\* What a copytree that fails has copied: some of the entries, each with
\* the directories above it.
PartialCopies(t) ==
    { [q \in S |-> t[q]] :
        S \in {X \in SUBSET DOMAIN t :
                  X # DOMAIN t /\ \A q \in X : Len(q) > 1 => Parent(q) \in X} }

\* lines 141-145: shutil.copytree(extract_dir, work_dir); an error of the
\* copy is not caught and ends the run
CopyTree ==
    /\ pc = "copy"
    /\ \/ /\ fs' = [r \in DOMAIN fs \cup {work_dir} |->
                       IF r = work_dir THEN fs[extract_dir] ELSE fs[r]]
          /\ pc' = "files"
       \/ \E t \in PartialCopies(fs[extract_dir]) :
             /\ fs' = [r \in DOMAIN fs \cup {work_dir} |->
                          IF r = work_dir THEN t ELSE fs[r]]
             /\ pc' = "failed"
    /\ log_lines' = <<>>
    /\ UNCHANGED << upload, valid_zip, old, new, suffixes, content_candidates,
                    file_rename_candidates, folder_rename_candidates,
                    do_rename_files, do_rename_folders, do_change_contents,
                    confirm_word, pressed, apply_button, files_sorted,
                    folders_sorted, visited, changed, faults, out_zip >>

(* --------------------------- file system calls ------------------------ *)

\* A plausible slip: the loops resolve their paths below extract_dir.
MutationRootExtracted == extract_dir

\* The directory the rename and content loops resolve their paths in
\* (work_dir.joinpath(...), work_dir.rglob).
MutationRoot == work_dir

\* A plausible slip: the collision check is dropped.
ExistsNever(t, p) == FALSE

\* A plausible slip: the test is is_dir(), so an existing file does not count.
ExistsDirOnly(t, p) == p \in DOMAIN t /\ t[p].kind = "dir"

\* Path.exists()
Exists(t, p) == p \in DOMAIN t

\* Path.mkdir(parents=True, exist_ok=True): the missing directories on the
\* way to d are created.
Mkdirs(t, d) ==
    LET missing == {SubSeq(d, 1, k) : k \in 1..Len(d)} \ DOMAIN t
    IN  [q \in DOMAIN t \cup missing |-> IF q \in DOMAIN t THEN t[q] ELSE Dir(<<>>)]

MkdirsRaises(t, d) == \E k \in 1..Len(d) : IsFile(t, SubSeq(d, 1, k))

\* os.rename(src, dst) raises OSError: no source, no directory to put the
\* destination in, or a destination of the other kind or a non-empty directory.
RenameRaises(t, src, dst) ==
    \/ src \notin DOMAIN t
    \/ Parent(dst) # <<>> /\ ~IsDir(t, Parent(dst))
    \/ /\ dst \in DOMAIN t
       /\ dst # src
       /\ \/ t[src].kind # t[dst].kind
          \/ \E q \in DOMAIN t : IsPrefix(dst, q) /\ q # dst

\* A plausible slip: the entry is copied to the destination and the source
\* is left in place.
RenameCopies(t, src, dst) ==
    LET moved == {q \in DOMAIN t : IsPrefix(src, q)}
        to(q) == dst \o DropFirst(q, Len(src))
    IN  [q \in DOMAIN t \cup {to(m) : m \in moved} |->
            IF q \in DOMAIN t /\ q # dst THEN t[q]
            ELSE t[CHOOSE m \in moved : to(m) = q]]

\* os.rename(src, dst) when it does not raise: src and everything below it
\* move to dst; a file (or empty directory) that was at dst is replaced.
Rename(t, src, dst) ==
    LET moved == {q \in DOMAIN t : IsPrefix(src, q)}
        to(q) == dst \o DropFirst(q, Len(src))
        kept == DOMAIN t \ (moved \cup {dst})
    IN  [q \in kept \cup {to(m) : m \in moved} |->
            IF q \in kept THEN t[q]
            ELSE t[CHOOSE m \in moved : to(m) = q]]

\* Path.write_text(x)
WriteText(t, p, x) == [t EXCEPT ![p].data = x]

PutTree(root, t) == [fs EXCEPT ![root] = t]

(* ------------------------------ the log -------------------------------- *)

Line(op, rel, dst, n) == [op |-> op, rel |-> rel, dst |-> dst, n |-> n]

\* A plausible slip: the line is not appended.
LogDropped(log, op, rel, dst, n) == log

\* A plausible slip: the line is put in front (insert(0, ...)).
LogInFront(log, op, rel, dst, n) == <<Line(op, rel, dst, n)>> \o log

\* log_lines.append(f"...")
Log(log, op, rel, dst, n) == Append(log, Line(op, rel, dst, n))

(* ----------------------------- rename loops ---------------------------- *)

\* A plausible slip: the exception is not caught and ends the run.
Uncaught(at) == "crashed"

\* except Exception as e: the line is logged and the loop goes on from
\* where it is.
Caught(at) == at

\* A plausible slip: the candidates are processed unsorted.
AnyOrders(S) ==
    {s \in [1..Cardinality(S) -> S] :
        \A i, j \in 1..Cardinality(S) : i < j => s[i] # s[j]}

\* A plausible slip: the key is len(str(x)), so the shortest path comes first.
ShortestFirst(S) ==
    {s \in [1..Cardinality(S) -> S] :
        \A i, j \in 1..Cardinality(S) :
            i < j => s[i] # s[j] /\ StrLen(s[i]) <= StrLen(s[j])}

\* sorted(..., key=lambda x: -len(str(x))): the sort is stable, so paths of
\* equal length stay in traversal order, which the file system chooses.
SortedOrders(S) ==
    {s \in [1..Cardinality(S) -> S] :
        \A i, j \in 1..Cardinality(S) :
            i < j => s[i] # s[j] /\ StrLen(s[i]) >= StrLen(s[j])}

\* lines 148-149
StartFiles ==
    /\ pc = "files"
    /\ files_sorted' \in
          IF do_rename_files
          THEN SortedOrders({c[1] : c \in file_rename_candidates})
          ELSE {<<>>}
    /\ pc' = "files_loop"
    /\ UNCHANGED << upload, valid_zip, old, new, suffixes, fs, content_candidates,
                    file_rename_candidates, folder_rename_candidates,
                    do_rename_files, do_rename_folders, do_change_contents,
                    confirm_word, pressed, apply_button, folders_sorted,
                    visited, changed, log_lines, faults, out_zip >>

\* lines 150-164: one iteration of the file loop
RenameFile ==
    /\ pc = "files_loop"
    /\ files_sorted # <<>>
    /\ LET rel == Head(files_sorted)
           dst_name == Replace(Name(rel), old, new)
           dst == Parent(rel) \o <<dst_name>>
           t0 == fs[MutationRoot]
           t1 == Mkdirs(t0, Parent(dst))
       IN  \/ /\ MkdirsRaises(t0, Parent(dst))
              /\ fs' = fs
              /\ log_lines' = Log(log_lines, "ERROR renaming", rel, <<>>, 0)
              /\ faults' = faults
              /\ pc' = Caught(pc)
           \/ /\ ~MkdirsRaises(t0, Parent(dst))
              /\ Exists(t1, dst)
              /\ fs' = PutTree(MutationRoot, t1)
              /\ log_lines' = Log(log_lines, "SKIP rename", rel, dst_name, 0)
              /\ faults' = faults
              /\ pc' = pc
           \/ /\ ~MkdirsRaises(t0, Parent(dst))
              /\ ~Exists(t1, dst)
              /\ \/ /\ ~RenameRaises(t1, rel, dst)
                    /\ fs' = PutTree(MutationRoot, Rename(t1, rel, dst))
                    /\ log_lines' = Log(log_lines, "RENAMED FILE", rel, dst_name, 0)
                    /\ faults' = faults
                    /\ pc' = pc
                 \/ /\ RenameRaises(t1, rel, dst)
                    /\ fs' = PutTree(MutationRoot, t1)
                    /\ log_lines' = Log(log_lines, "ERROR renaming", rel, <<>>, 0)
                    /\ faults' = faults
                    /\ pc' = Caught(pc)
                 \/ /\ faults < MaxFaults
                    /\ fs' = PutTree(MutationRoot, t1)
                    /\ log_lines' = Log(log_lines, "ERROR renaming", rel, <<>>, 0)
                    /\ faults' = faults + 1
                    /\ pc' = Caught(pc)
    /\ files_sorted' = Tail(files_sorted)
    /\ UNCHANGED << upload, valid_zip, old, new, suffixes, content_candidates,
                    file_rename_candidates, folder_rename_candidates,
                    do_rename_files, do_rename_folders, do_change_contents,
                    confirm_word, pressed, apply_button, folders_sorted,
                    visited, changed, out_zip >>

\* lines 167-168
StartFolders ==
    /\ pc = "files_loop"
    /\ files_sorted = <<>>
    /\ folders_sorted' \in
          IF do_rename_folders
          THEN SortedOrders({c[1] : c \in folder_rename_candidates})
          ELSE {<<>>}
    /\ pc' = "folders_loop"
    /\ UNCHANGED << upload, valid_zip, old, new, suffixes, fs, content_candidates,
                    file_rename_candidates, folder_rename_candidates,
                    do_rename_files, do_rename_folders, do_change_contents,
                    confirm_word, pressed, apply_button, files_sorted,
                    visited, changed, log_lines, faults, out_zip >>

\* lines 169-181: one iteration of the folder loop
RenameFolder ==
    /\ pc = "folders_loop"
    /\ folders_sorted # <<>>
    /\ LET rel == Head(folders_sorted)
           dst_name == Replace(Name(rel), old, new)
           dst == Parent(rel) \o <<dst_name>>
           t0 == fs[MutationRoot]
       IN  \/ /\ Exists(t0, dst)
              /\ fs' = fs
              /\ log_lines' = Log(log_lines, "SKIP folder rename", rel, dst_name, 0)
              /\ faults' = faults
              /\ pc' = pc
           \/ /\ ~Exists(t0, dst)
              /\ \/ /\ ~RenameRaises(t0, rel, dst)
                    /\ fs' = PutTree(MutationRoot, Rename(t0, rel, dst))
                    /\ log_lines' = Log(log_lines, "RENAMED FOLDER", rel, dst_name, 0)
                    /\ faults' = faults
                    /\ pc' = pc
                 \/ /\ RenameRaises(t0, rel, dst)
                    /\ fs' = fs
                    /\ log_lines' = Log(log_lines, "ERROR renaming folder", rel, <<>>, 0)
                    /\ faults' = faults
                    /\ pc' = Caught(pc)
                 \/ /\ faults < MaxFaults
                    /\ fs' = fs
                    /\ log_lines' = Log(log_lines, "ERROR renaming folder", rel, <<>>, 0)
                    /\ faults' = faults + 1
                    /\ pc' = Caught(pc)
    /\ folders_sorted' = Tail(folders_sorted)
    /\ UNCHANGED << upload, valid_zip, old, new, suffixes, content_candidates,
                    file_rename_candidates, folder_rename_candidates,
                    do_rename_files, do_rename_folders, do_change_contents,
                    confirm_word, pressed, apply_button, files_sorted,
                    visited, changed, out_zip >>

(* --------------------------- content rewrite --------------------------- *)

\* line 184
StartContent ==
    /\ pc = "folders_loop"
    /\ folders_sorted = <<>>
    /\ changed' = 0
    /\ visited' = {}
    /\ pc' = "content"
    /\ UNCHANGED << upload, valid_zip, old, new, suffixes, fs, content_candidates,
                    file_rename_candidates, folder_rename_candidates,
                    do_rename_files, do_rename_folders, do_change_contents,
                    confirm_word, pressed, apply_button, files_sorted,
                    folders_sorted, log_lines, faults, out_zip >>

\* A plausible slip: the content loop is not guarded by its checkbox.
ToRewriteUnguarded ==
    {f \in DOMAIN fs[MutationRoot] \ visited :
        ReadableMatch(fs[MutationRoot], f, suffixes, old)}

\* The entries of the traversal (line 186) that reach the write of line 194
\* and have not been visited.  The other entries pass without any effect.
ToRewrite ==
    IF do_change_contents
    THEN {f \in DOMAIN fs[MutationRoot] \ visited :
             ReadableMatch(fs[MutationRoot], f, suffixes, old)}
    ELSE {}

\* lines 186-198: one iteration that reaches the write.  rglob yields the
\* entries in the order the file system lists them.  A failing write leaves
\* the file as it was (open fails) or truncated (the write fails).
RewriteContent ==
    /\ pc = "content"
    /\ \E f \in ToRewrite :
          LET t0 == fs[MutationRoot]
              text == t0[f].data
          IN  /\ visited' = visited \cup {f}
              /\ \/ /\ fs' = PutTree(MutationRoot, WriteText(t0, f, Replace(text, old, new)))
                    /\ changed' = changed + 1
                    /\ log_lines' = Log(log_lines, "UPDATED CONTENT", f, <<>>, 0)
                    /\ faults' = faults
                    /\ pc' = pc
                 \/ /\ faults < MaxFaults
                    /\ \/ fs' = fs
                       \/ fs' = PutTree(MutationRoot, WriteText(t0, f, <<>>))
                    /\ changed' = changed
                    /\ log_lines' = Log(log_lines, "ERROR updating", f, <<>>, 0)
                    /\ faults' = faults + 1
                    /\ pc' = Caught(pc)
    /\ UNCHANGED << upload, valid_zip, old, new, suffixes, content_candidates,
                    file_rename_candidates, folder_rename_candidates,
                    do_rename_files, do_rename_folders, do_change_contents,
                    confirm_word, pressed, apply_button, files_sorted,
                    folders_sorted, out_zip >>

\* line 200
Summary ==
    /\ pc = "content"
    /\ ToRewrite = {}
    /\ log_lines' = Log(log_lines, "TOTAL", <<>>, <<>>, changed)
    /\ pc' = "zip"
    /\ UNCHANGED << upload, valid_zip, old, new, suffixes, fs, content_candidates,
                    file_rename_candidates, folder_rename_candidates,
                    do_rename_files, do_rename_folders, do_change_contents,
                    confirm_word, pressed, apply_button, files_sorted,
                    folders_sorted, visited, changed, faults, out_zip >>

\* A plausible slip: the entry is stored under its bare name.
ArcNameBare(p) == Name(p)

\* str(p.relative_to(work_dir)): the names joined by the separator
RECURSIVE ArcName(_)
ArcName(p) ==
    IF Len(p) = 1 THEN Head(p) ELSE Head(p) \o <<"/">> \o ArcName(Tail(p))

\* zf.write(p, arcname=...): a directory is stored under its name followed
\* by the separator and without data, a file with its bytes
ZipEntry(t, p) ==
    [ arcname |-> IF t[p].kind = "dir" THEN ArcName(p) \o <<"/">> ELSE ArcName(p),
      data |-> t[p].data,
      utf8 |-> t[p].utf8 ]

\* lines 202-208: every entry below work_dir is written under its path
\* relative to work_dir; an error of the packing is not caught and ends the run
Zip ==
    /\ pc = "zip"
    /\ \/ /\ out_zip' = {ZipEntry(fs[work_dir], p) : p \in DOMAIN fs[work_dir]}
          /\ pc' = "done"
       \/ /\ out_zip' = {}
          /\ pc' = "failed"
    /\ UNCHANGED << upload, valid_zip, old, new, suffixes, fs, content_candidates,
                    file_rename_candidates, folder_rename_candidates,
                    do_rename_files, do_rename_folders, do_change_contents,
                    confirm_word, pressed, apply_button, files_sorted,
                    folders_sorted, visited, changed, log_lines, faults >>

\* A plausible slip: the directory is made with mkdtemp and never removed.
RemoveTmpdirForgotten(f) == f

\* TemporaryDirectory.__exit__: the temporary directory goes with all it holds
RemoveTmpdir(f) == EmptyTree

\* line 50: the with block is left, by its end, by st.stop() or by an
\* exception that nothing catches
Cleanup ==
    /\ pc \in {"badzip", "crashed", "stopped", "failed", "done"}
    /\ fs' = RemoveTmpdir(fs)
    /\ pc' = "ended"
    /\ UNCHANGED << upload, valid_zip, old, new, suffixes, content_candidates,
                    file_rename_candidates, folder_rename_candidates,
                    do_rename_files, do_rename_folders, do_change_contents,
                    confirm_word, pressed, apply_button, files_sorted,
                    folders_sorted, visited, changed, log_lines, faults, out_zip >>

Next ==
    \/ CheckOld
    \/ Extract
    \/ Scan
    \/ Gate
    \/ CopyTree
    \/ StartFiles
    \/ RenameFile
    \/ StartFolders
    \/ RenameFolder
    \/ StartContent
    \/ RewriteContent
    \/ Summary
    \/ Zip
    \/ Cleanup

Spec == Init /\ [][Next]_vars
(* ============================== claims ================================= *)

FileOps == {"RENAMED FILE", "SKIP rename", "ERROR renaming"}
FolderOps == {"RENAMED FOLDER", "SKIP folder rename", "ERROR renaming folder"}
ContentOps == {"UPDATED CONTENT", "ERROR updating"}
ErrorOps == {"ERROR renaming", "ERROR renaming folder", "ERROR updating"}

LinesOf(ops) == {i \in DOMAIN log_lines : log_lines[i].op \in ops}

Applying_pcs == {"copy", "files", "files_loop", "folders_loop", "content", "zip", "done"}

Applying == pc \in Applying_pcs

ProperAncestor(a, p) == IsPrefix(a, p) /\ a # p

BeforeGate == {"start", "rejected", "extract", "badzip", "scan", "gate", "crashed"}

\* C1: whenever the confirmation field does not hold exactly "APPLY", the run
\* stops at the gate: no working copy exists, nothing is logged or packed and
\* the extracted tree is the uploaded one, whether or not Apply was pressed.
C1_ConfirmationGate ==
    (pc \notin BeforeGate /\ confirm_word # "APPLY") =>
        /\ pc \in {"stopped", "ended"}
        /\ pc = "stopped" => fs = (extract_dir :> upload)
        /\ work_dir \notin DOMAIN fs
        /\ log_lines = <<>>
        /\ out_zip = {}

C1_Witness ==
    /\ pc = "stopped"
    /\ confirm_word = "apply"
    /\ pressed
    /\ do_rename_files /\ do_change_contents

\* C2: the folder lines of the log are in non-increasing order of the length
\* of the source path, what is left of the folder loop is no longer than
\* what was attempted, and the line of a folder candidate below another one
\* comes before the line of that ancestor.
C2_FolderOrder ==
    /\ \A i, j \in LinesOf(FolderOps) :
          i < j => /\ StrLen(log_lines[i].rel) >= StrLen(log_lines[j].rel)
                   /\ ~ProperAncestor(log_lines[i].rel, log_lines[j].rel)
    /\ \A i \in LinesOf(FolderOps), k \in DOMAIN folders_sorted :
          /\ StrLen(log_lines[i].rel) >= StrLen(folders_sorted[k])
          /\ ~ProperAncestor(log_lines[i].rel, folders_sorted[k])

C2_Witness ==
    /\ pc = "done"
    /\ \E i, j \in LinesOf(FolderOps) :
          i < j /\ ProperAncestor(log_lines[j].rel, log_lines[i].rel)

\* The candidate at the head of the running rename loop, with the
\* destination it is about to be renamed to.
Attempt ==
    IF pc = "files_loop" /\ files_sorted # <<>>
    THEN {[rel |-> Head(files_sorted), op |-> "SKIP rename"]}
    ELSE IF pc = "folders_loop" /\ folders_sorted # <<>>
    THEN {[rel |-> Head(folders_sorted), op |-> "SKIP folder rename"]}
    ELSE {}

DestOf(rel) == Parent(rel) \o <<Replace(Name(rel), old, new)>>

\* A rename attempt whose destination exists changes nothing in the working
\* copy, appends the SKIP line of its candidate and leaves the rest of the
\* loop to be processed.
SkipStep ==
    \A a \in Attempt :
        DestOf(a.rel) \in DOMAIN fs[work_dir] =>
            /\ fs' = fs
            /\ log_lines' = Append(log_lines,
                                   Line(a.op, a.rel, Replace(Name(a.rel), old, new), 0))
            /\ files_sorted' = IF pc = "files_loop" THEN Tail(files_sorted) ELSE files_sorted
            /\ folders_sorted' =
                  IF pc = "folders_loop" THEN Tail(folders_sorted) ELSE folders_sorted
            /\ pc' = pc

\* The source of every skipped rename is in the working copy under the name
\* it had at the scan.
SkippedSourceKept ==
    \A i \in LinesOf({"SKIP rename", "SKIP folder rename"}) :
        \E q \in DOMAIN fs[work_dir] :
            /\ fs[work_dir][q].orig = log_lines[i].rel
            /\ Name(q) = Name(log_lines[i].rel)
            /\ fs[work_dir][q].kind = upload[log_lines[i].rel].kind

\* The entry found at the destination of a skipped rename stays as it is,
\* name and content, in every later step of the apply.
SkippedDestinationKept ==
    \A i \in LinesOf({"SKIP rename", "SKIP folder rename"}) :
        LET D == Parent(log_lines[i].rel) \o <<log_lines[i].dst>>
        IN  D \in DOMAIN fs[work_dir] =>
                \E q \in DOMAIN fs'[work_dir] :
                    /\ fs'[work_dir][q] = fs[work_dir][D]
                    /\ Name(q) = Name(D)

\* C3 as amended: a rename attempt whose destination exists leaves the tree as
\* it is (source in place, destination untouched), logs SKIP for its candidate
\* and the loop goes on; the skipped source keeps its name to the end.
C3_CollisionSkips ==
    /\ [][SkipStep]_vars
    /\ [](Applying /\ pc # "copy" => SkippedSourceKept)

C3_Witness ==
    /\ pc = "done"
    /\ \E i \in LinesOf({"SKIP rename", "SKIP folder rename"}) :
          \E j \in LinesOf({"RENAMED FILE", "RENAMED FOLDER"}) : i < j

\* C3 as claimed: in addition, the entry at the destination of a skipped
\* rename is unmodified from the attempt to the end of the apply.
C3_Original ==
    /\ [][SkipStep /\ (Applying /\ pc # "copy" => SkippedDestinationKept)]_vars
    /\ [](Applying /\ pc # "copy" => SkippedSourceKept)
Phase(op) ==
    IF op \in FileOps THEN 1
    ELSE IF op \in FolderOps THEN 2
    ELSE IF op \in ContentOps THEN 3
    ELSE 4

SelectedFiles == IF do_rename_files THEN {c[1] : c \in file_rename_candidates} ELSE {}
SelectedFolders == IF do_rename_folders THEN {c[1] : c \in folder_rename_candidates} ELSE {}

LinesFor(ops, rel) == {i \in LinesOf(ops) : log_lines[i].rel = rel}

\* The run is over: the packing failed or the with block has been left.
Over == {"failed", "ended"}

\* C4: the log is ordered file lines, folder lines, content lines, summary;
\* the folder loop runs only when every selected file candidate has been
\* attempted, the content loop only when every selected folder candidate has
\* been, and the summary line is written only after the content loop.
C4_PhaseOrder ==
    /\ \A i, j \in DOMAIN log_lines :
          i < j => Phase(log_lines[i].op) <= Phase(log_lines[j].op)
    /\ LinesOf(FileOps) # {} =>
          pc \in {"files_loop", "folders_loop", "content", "zip", "done"} \cup Over
    /\ (LinesOf(FolderOps) # {} \/ pc \in {"folders_loop", "content", "zip", "done"}) =>
          /\ pc \in {"folders_loop", "content", "zip", "done"} \cup Over
          /\ files_sorted = <<>>
          /\ \A r \in SelectedFiles : LinesFor(FileOps, r) # {}
    /\ (LinesOf(ContentOps) # {} \/ pc \in {"content", "zip", "done"}) =>
          /\ pc \in {"content", "zip", "done"} \cup Over
          /\ folders_sorted = <<>>
          /\ \A r \in SelectedFolders : LinesFor(FolderOps, r) # {}
    /\ LinesOf({"TOTAL"}) # {} =>
          /\ pc \in {"zip", "done"} \cup Over
          /\ LinesOf({"TOTAL"}) = {Len(log_lines)}

C4_Witness ==
    /\ pc = "done"
    /\ LinesOf(FileOps) # {}
    /\ LinesOf(FolderOps) # {}
    /\ LinesOf(ContentOps) # {}

\* C5: after an apply with content replacement selected (and no injected
\* failure), every file of the scan's content matches, followed through its
\* renames, holds its text with every occurrence of old replaced, and every
\* other file holds the text it was extracted with.
C5_ContentCoversScan ==
    (pc = "done" /\ do_change_contents /\ faults = 0) =>
        \A q \in DOMAIN fs[work_dir] :
            LET e == fs[work_dir][q]
            IN  e.kind = "file" =>
                    e.data = IF e.orig \in content_candidates
                             THEN Replace(upload[e.orig].data, old, new)
                             ELSE upload[e.orig].data

LogAccounted ==
    pc \in {"zip", "done"} =>
        /\ \A r \in SelectedFiles : Cardinality(LinesFor(FileOps, r)) = 1
        /\ Cardinality(LinesOf(FileOps)) = Cardinality(SelectedFiles)
        /\ \A r \in SelectedFolders : Cardinality(LinesFor(FolderOps, r)) = 1
        /\ Cardinality(LinesOf(FolderOps)) = Cardinality(SelectedFolders)
        /\ \A f \in visited : Cardinality(LinesFor(ContentOps, f)) = 1
        /\ Cardinality(LinesOf(ContentOps)) = Cardinality(visited)
        /\ Len(log_lines) = Cardinality(SelectedFiles) + Cardinality(SelectedFolders)
                              + Cardinality(visited) + 1
        /\ log_lines[Len(log_lines)].op = "TOTAL"
        /\ log_lines[Len(log_lines)].n = Cardinality(LinesOf({"UPDATED CONTENT"}))
        /\ changed = Cardinality(LinesOf({"UPDATED CONTENT"}))

\* A step of a loop puts one line at the end of the log, the line of the
\* item it attempted; no other step but the summary writes to the log.
LogStep ==
    /\ (pc = "files_loop" /\ files_sorted' # files_sorted) =>
          /\ Len(log_lines') = Len(log_lines) + 1
          /\ SubSeq(log_lines', 1, Len(log_lines)) = log_lines
          /\ log_lines'[Len(log_lines')].op \in FileOps
          /\ log_lines'[Len(log_lines')].rel = Head(files_sorted)
    /\ (pc = "folders_loop" /\ folders_sorted' # folders_sorted) =>
          /\ Len(log_lines') = Len(log_lines) + 1
          /\ SubSeq(log_lines', 1, Len(log_lines)) = log_lines
          /\ log_lines'[Len(log_lines')].op \in FolderOps
          /\ log_lines'[Len(log_lines')].rel = Head(folders_sorted)
    /\ (pc = "content" /\ visited' # visited) =>
          /\ Len(log_lines') = Len(log_lines) + 1
          /\ SubSeq(log_lines', 1, Len(log_lines)) = log_lines
          /\ log_lines'[Len(log_lines')].op \in ContentOps
          /\ visited' = visited \cup {log_lines'[Len(log_lines')].rel}
    /\ (pc = "content" /\ pc' = "zip") =>
          log_lines' = Append(log_lines, Line("TOTAL", <<>>, <<>>, changed))
    /\ (files_sorted' = files_sorted /\ folders_sorted' = folders_sorted
          /\ visited' = visited /\ pc' \notin {"files", "zip"}) =>
          log_lines' = log_lines

\* C7: every attempt of the rename loops and every attempted content write
\* appends its one line to the log when it is performed; after an apply the
\* log holds exactly one line for each selected file candidate, one for each
\* selected folder candidate, one for each content write attempted, and then
\* one summary line whose count is the number of UPDATED CONTENT lines.
C7_LogAccounting == [][LogStep]_vars /\ []LogAccounted

C7_Witness ==
    /\ pc = "done"
    /\ LinesOf({"SKIP rename", "SKIP folder rename"}) # {}
    /\ LinesOf({"UPDATED CONTENT"}) # {}
    /\ Len(log_lines) = 3

\* The occurrences of o in s that a scan from the left picks: an occurrence
\* is picked when it does not overlap one picked before it.
Picked(s, o) ==
    LET c[i \in 0..Len(s)] ==
            IF i = 0 THEN {}
            ELSE IF MatchAt(s, o, i) /\ \A j \in c[i - 1] : j + Len(o) <= i
                 THEN c[i - 1] \cup {i}
                 ELSE c[i - 1]
    IN  c[Len(s)]

RECURSIVE Rebuild(_, _, _, _, _)
Rebuild(s, o, n, at, i) ==
    IF i > Len(s) THEN <<>>
    ELSE IF i \in at THEN n \o Rebuild(s, o, n, at, i + Len(o))
    ELSE <<s[i]>> \o Rebuild(s, o, n, at, i + 1)

\* s with every picked occurrence of o replaced by n
Replaced(s, o, n) == Rebuild(s, o, n, Picked(s, o), 1)

\* C8: the destination of every rename candidate lies in the directory of
\* its source, under the source's name with every non-overlapping occurrence
\* of old, leftmost first, replaced by new; the rename loops derive the same
\* name, and a renamed entry carries it; a destination name without old is
\* left unchanged by the replacement.
C8_Destination ==
    /\ \A c \in file_rename_candidates \cup folder_rename_candidates :
          /\ Parent(c[2]) = Parent(c[1])
          /\ Len(c[2]) = Len(c[1])
          /\ Name(c[2]) = Replaced(Name(c[1]), old, new)
          /\ ~Contains(Name(c[2]), old) => Replace(Name(c[2]), old, new) = Name(c[2])
    /\ \A i \in LinesOf({"RENAMED FILE", "SKIP rename", "RENAMED FOLDER", "SKIP folder rename"}) :
          log_lines[i].dst = Replaced(Name(log_lines[i].rel), old, new)
    /\ \A i \in LinesOf({"RENAMED FILE", "RENAMED FOLDER"}) :
          work_dir \in DOMAIN fs =>
          \E q \in DOMAIN fs[work_dir] :
              /\ fs[work_dir][q].orig = log_lines[i].rel
              /\ Name(q) = Replaced(Name(log_lines[i].rel), old, new)

C8_Witness ==
    /\ pc = "done"
    /\ \E i \in LinesOf({"RENAMED FILE", "RENAMED FOLDER"}) :
          /\ Cardinality(Picked(Name(log_lines[i].rel), old)) = 2
          /\ log_lines[i].dst = new \o new
          /\ Contains(log_lines[i].dst, old)

\* C9: a scan that completes returns as filename matches the files whose
\* name contains old, as folder matches the directories whose name contains
\* old, and as content matches the files with a selected suffix whose text
\* decodes and contains old; all three are empty when old occurs nowhere.
C9_ScanClassification ==
    pc \in {"gate", "stopped"} \cup Applying_pcs =>
        /\ {c[1] : c \in file_rename_candidates} =
              {p \in DOMAIN upload : upload[p].kind = "file" /\ Contains(p[Len(p)], old)}
        /\ {c[1] : c \in folder_rename_candidates} =
              {p \in DOMAIN upload : upload[p].kind = "dir" /\ Contains(p[Len(p)], old)}
        /\ content_candidates =
              {p \in DOMAIN upload :
                  /\ upload[p].kind = "file"
                  /\ Suffix(p[Len(p)]) \in suffixes \cap ALLOWED_SUFFIXES
                  /\ upload[p].utf8
                  /\ Contains(upload[p].data, old)}
        /\ (\A p \in DOMAIN upload :
               ~Contains(p[Len(p)], old) /\ ~Contains(upload[p].data, old))
             => /\ file_rename_candidates = {}
                /\ folder_rename_candidates = {}
                /\ content_candidates = {}

C9_Witness ==
    /\ pc = "gate"
    /\ \E c \in file_rename_candidates :
          ~upload[c[1]].utf8 /\ Suffix(Name(c[1])) \notin ALLOWED_SUFFIXES
    /\ \E p \in DOMAIN upload :
          /\ ReadableMatchAnySuffix(upload, p, suffixes, old)
          /\ Suffix(Name(p)) \in ALLOWED_SUFFIXES \ suffixes
          /\ p \notin content_candidates

\* C10: from extraction on, whatever the apply renames, rewrites, skips or
\* fails to do, the extracted tree holds the paths and contents it was
\* extracted with.
C10_ReferenceTreeKept ==
    extract_dir \in DOMAIN fs => fs[extract_dir] = upload

C10_Witness ==
    /\ pc = "done"
    /\ LinesOf({"RENAMED FILE"}) # {}
    /\ LinesOf({"RENAMED FOLDER"}) # {}
    /\ LinesOf({"UPDATED CONTENT"}) # {}
    /\ fs[work_dir] # upload

\* C11: with an empty search field the run ends at the check of line 41:
\* nothing is extracted, scanned, copied, renamed, rewritten or packed.
C11_EmptyOldRejected ==
    old = <<>> =>
        /\ pc \in {"start", "rejected"}
        /\ fs = EmptyTree
        /\ file_rename_candidates = {}
        /\ folder_rename_candidates = {}
        /\ content_candidates = {}
        /\ log_lines = <<>>
        /\ out_zip = {}

C11_Witness ==
    /\ pc = "rejected"
    /\ old = <<>>
    /\ valid_zip
    /\ \E p \in DOMAIN upload : upload[p].kind = "file"

\* C12: a run has ended when it can take no further step; then nothing is
\* left below the temporary directory, whichever way the run went: bytes
\* that are no archive, a scan that raises, the stop at the gate, a failing
\* copy or packing, or the end of the script.
C12_TmpdirRemoved ==
    /\ ~ENABLED Next => DOMAIN fs = {}
    /\ pc = "ended" => DOMAIN fs = {}
    /\ pc \in {"badzip", "crashed", "stopped", "failed", "done"} => ENABLED Cleanup

C12_Witness ==
    /\ pc = "ended"
    /\ ~ENABLED Next
    /\ upload # EmptyTree
    /\ LinesOf({"TOTAL"}) # {}
    /\ LinesOf(ErrorOps) # {}
    /\ out_zip = {}

foo_old_json == <<"f", "o", "o", "_", "o", "l", "d", ".", "j", "s", "o", "n">>
foo_new_json == <<"f", "o", "o", "_", "n", "e", "w", ".", "j", "s", "o", "n">>
old_dir == <<"o", "l", "d", "_", "d", "i", "r">>
new_dir == <<"n", "e", "w", "_", "d", "i", "r">>
name_old == <<"{", "\"", "n", "a", "m", "e", "\"", ":", "\"", "o", "l", "d", "\"", "}">>
name_new == <<"{", "\"", "n", "a", "m", "e", "\"", ":", "\"", "n", "e", "w", "\"", "}">>

\* The run of the example: the tree holds foo_old.json with {"name":"old"}
\* and the folder old_dir, old is "old", new is "new", the three operations
\* are selected, the token is APPLY and no I/O operation has failed.
ExampleRun ==
    /\ old = <<"o", "l", "d">>
    /\ new = <<"n", "e", "w">>
    /\ DOMAIN upload = {<<foo_old_json>>, <<old_dir>>}
    /\ upload[<<foo_old_json>>].kind = "file"
    /\ upload[<<foo_old_json>>].utf8
    /\ upload[<<foo_old_json>>].data = name_old
    /\ upload[<<old_dir>>].kind = "dir"
    /\ do_rename_files /\ do_rename_folders /\ do_change_contents
    /\ confirm_word = "APPLY"
    /\ faults = 0

\* C13: the run of the example ends with the file named foo_new.json holding
\* {"name":"new"}, the folder named new_dir, and a log of one RENAMED FILE
\* line, one RENAMED FOLDER line, one UPDATED CONTENT line and the summary
\* line with count 1, in this order and nothing else.
C13_EndToEnd ==
    (ExampleRun /\ pc \in {"zip", "done"}) =>
        /\ DOMAIN fs[work_dir] = {<<foo_new_json>>, <<new_dir>>}
        /\ fs[work_dir][<<foo_new_json>>].kind = "file"
        /\ fs[work_dir][<<foo_new_json>>].data = name_new
        /\ fs[work_dir][<<new_dir>>].kind = "dir"
        /\ log_lines = << Line("RENAMED FILE", <<foo_old_json>>, foo_new_json, 0),
                          Line("RENAMED FOLDER", <<old_dir>>, new_dir, 0),
                          Line("UPDATED CONTENT", <<foo_new_json>>, <<>>, 0),
                          Line("TOTAL", <<>>, <<>>, 1) >>

C13_Witness ==
    /\ ExampleRun
    /\ pc = "done"
    /\ Len(log_lines) = 4
    /\ out_zip # {}

\* The segments of an archive member name: the pieces between separators,
\* empty pieces dropped, as extraction resolves them below its target.
RECURSIVE Segments(_)
Segments(s) ==
    IF s = <<>> THEN <<>>
    ELSE LET cut == {i \in 1..Len(s) : s[i] = "/"}
             i == IF cut = {} THEN Len(s) + 1
                  ELSE CHOOSE k \in cut : \A m \in cut : k <= m
             seg == SubSeq(s, 1, i - 1)
             rest == SubSeq(s, i + 1, Len(s))
         IN  IF seg = <<>> THEN Segments(rest) ELSE <<seg>> \o Segments(rest)

\* Re-extracting an archive into an empty directory: every member lands at
\* its segments, a member whose name ends with the separator as a directory,
\* and the directories on the way are made.
Unzip(z) ==
    LET at(e) == Segments(e.arcname)
        named == {at(e) : e \in z}
        all == UNION {{SubSeq(p, 1, k) : k \in 1..Len(p)} : p \in named}
    IN  [q \in all |->
            IF q \in named
            THEN LET e == CHOOSE x \in z : at(x) = q
                 IN  [ kind |-> IF e.arcname[Len(e.arcname)] = "/" THEN "dir" ELSE "file",
                       data |-> e.data, utf8 |-> e.utf8 ]
            ELSE [kind |-> "dir", data |-> <<>>, utf8 |-> TRUE]]

\* A tree without the record of where its entries came from.
Plain(t) == [q \in DOMAIN t |-> [kind |-> t[q].kind, data |-> t[q].data, utf8 |-> t[q].utf8]]

old_txt == <<"o", "l", "d", ".", "t", "x", "t">>
new_txt == <<"n", "e", "w", ".", "t", "x", "t">>

\* The upload of the round-trip example: a/old.txt, processed with old->new.
RoundTripExample ==
    /\ old = <<"o", "l", "d">>
    /\ new = <<"n", "e", "w">>
    /\ DOMAIN upload = {<< <<"a">> >>, << <<"a">>, old_txt >>}
    /\ upload[<< <<"a">>, old_txt >>].kind = "file"
    /\ do_rename_files
    /\ faults = 0

\* C14: the archive that is produced has one member for each entry of the
\* mutated working tree, named by the entry's path relative to work_dir: no
\* member name is empty, starts with the separator or has a segment ".." or
\* ".", and re-extracting the archive gives the mutated tree again.  For the
\* upload a/old.txt the re-extracted tree holds a/new.txt and no old.txt.
C14_ArchiveRoundTrip ==
    pc = "done" =>
        /\ Cardinality(out_zip) = Cardinality(DOMAIN fs[work_dir])
        /\ \A e \in out_zip :
              /\ e.arcname # <<>>
              /\ e.arcname[1] # "/"
              /\ \A k \in DOMAIN Segments(e.arcname) :
                    Segments(e.arcname)[k] \notin {<<".", ".">>, <<".">>}
              /\ \E p \in DOMAIN fs[work_dir] :
                    /\ Segments(e.arcname) = p
                    /\ e.data = fs[work_dir][p].data
        /\ Unzip(out_zip) = Plain(fs[work_dir])
        /\ RoundTripExample =>
              /\ DOMAIN Unzip(out_zip) = {<< <<"a">> >>, << <<"a">>, new_txt >>}
              /\ Unzip(out_zip)[<< <<"a">>, new_txt >>].kind = "file"
              /\ Unzip(out_zip)[<< <<"a">> >>].kind = "dir"

C14_Witness ==
    /\ pc = "done"
    /\ RoundTripExample
    /\ << <<"a">>, new_txt >> \in DOMAIN Unzip(out_zip)
    /\ \A q \in DOMAIN Unzip(out_zip) : Name(q) # old_txt

RenameErrors == {"ERROR renaming", "ERROR renaming folder"}

\* C15: whenever a file or folder rename is about to be attempted, the
\* candidate's scan-time path still names an entry of its kind in the
\* working copy, whatever was renamed or skipped before; and as long as no
\* I/O fault has been injected the log holds no ERROR line of a rename.
C15_SourcePathsValid ==
    /\ \A a \in Attempt :
          /\ a.rel \in DOMAIN fs[work_dir]
          /\ fs[work_dir][a.rel].kind = IF pc = "files_loop" THEN "file" ELSE "dir"
          /\ fs[work_dir][a.rel].orig = a.rel
    /\ faults = 0 => LinesOf(RenameErrors) = {}

\* A folder is about to be renamed after a folder below it and a file have
\* been renamed.
C15_Witness ==
    /\ pc = "folders_loop"
    /\ folders_sorted # <<>>
    /\ faults = 0
    /\ Head(folders_sorted) \in DOMAIN fs[work_dir]
    /\ \E i \in LinesOf({"RENAMED FOLDER", "RENAMED FILE"}) :
          ProperAncestor(Head(folders_sorted), log_lines[i].rel)

\* C16: for a non-empty old and any new, the empty one included, deriving
\* the destination names never ends the run: the scan of a readable archive
\* completes, and every entry whose name holds old is listed as a candidate
\* of its kind.  (Violated: with_name raises ValueError in the scan when the
\* derived name is empty, and nothing catches it.)
C16_EmptyReplacementAccepted ==
    (old # <<>> /\ valid_zip) =>
        /\ pc # "crashed"
        /\ pc \in {"gate", "stopped"} \cup Applying_pcs =>
              \A p \in DOMAIN upload :
                  Contains(Name(p), old) =>
                      \E c \in file_rename_candidates \cup folder_rename_candidates :
                          c[1] = p

FilesOf(t) == {p \in DOMAIN t : t[p].kind = "file"}
DirsOf(t) == {p \in DOMAIN t : t[p].kind = "dir"}

\* The working copy exists whole: the copy succeeded and the with block has
\* not been left.
Renaming_pcs == {"files", "files_loop", "folders_loop", "content", "zip", "done"}

\* C17: from the copy to the end of the run, through every rename that is
\* applied, skipped or failed, the working copy holds as many regular files
\* and as many directories as the upload, and every uploaded entry is still
\* there as exactly one entry of its kind: none was replaced by a rename,
\* none was created on the way.
C17_NothingLost ==
    pc \in Renaming_pcs =>
        /\ Cardinality(FilesOf(fs[work_dir])) = Cardinality(FilesOf(upload))
        /\ Cardinality(DirsOf(fs[work_dir])) = Cardinality(DirsOf(upload))
        /\ \A p \in DOMAIN upload :
              Cardinality({q \in DOMAIN fs[work_dir] :
                              /\ fs[work_dir][q].orig = p
                              /\ fs[work_dir][q].kind = upload[p].kind}) = 1

\* Two candidates derived the same destination: the first was renamed to it,
\* the second was skipped, and both are still in the working copy.
C17_Witness ==
    /\ pc \in {"folders_loop", "content", "zip", "done"}
    /\ \E i, j \in LinesOf(FileOps) \cup LinesOf(FolderOps) :
          /\ i < j
          /\ log_lines[i].op \in {"RENAMED FILE", "RENAMED FOLDER"}
          /\ log_lines[j].op \in {"SKIP rename", "SKIP folder rename"}
          /\ log_lines[i].rel # log_lines[j].rel
          /\ DestOf(log_lines[i].rel) = DestOf(log_lines[j].rel)
          /\ DestOf(log_lines[i].rel) \in DOMAIN fs[work_dir]
          /\ log_lines[j].rel \in DOMAIN fs[work_dir]

\* C18: a class of operations that is not selected does nothing.  Without
\* file renames the log has no file line and every file keeps its name;
\* without folder renames the log has no folder line and every entry keeps
\* the folders above it and every folder its name; without content
\* replacement the log has no content line, every file keeps the bytes of
\* the upload and the summary line reports 0.
C18_UnselectedUntouched ==
    /\ ~do_rename_files =>
          /\ LinesOf(FileOps) = {}
          /\ pc \in Renaming_pcs =>
                \A q \in FilesOf(fs[work_dir]) :
                    Name(q) = Name(fs[work_dir][q].orig)
    /\ ~do_rename_folders =>
          /\ LinesOf(FolderOps) = {}
          /\ pc \in Renaming_pcs =>
                /\ \A q \in DirsOf(fs[work_dir]) : q = fs[work_dir][q].orig
                /\ \A q \in FilesOf(fs[work_dir]) :
                      Parent(q) = Parent(fs[work_dir][q].orig)
    /\ ~do_change_contents =>
          /\ LinesOf(ContentOps) = {}
          /\ changed = 0
          /\ \A i \in LinesOf({"TOTAL"}) : log_lines[i].n = 0
          /\ pc \in Renaming_pcs =>
                \A q \in FilesOf(fs[work_dir]) :
                    /\ fs[work_dir][q].data = upload[fs[work_dir][q].orig].data
                    /\ fs[work_dir][q].utf8 = upload[fs[work_dir][q].orig].utf8

\* A confirmed apply that ran to its end with file renames and content
\* replacement deselected although both had candidates, and with a folder
\* renamed.
C18_Witness ==
    /\ pc = "done"
    /\ confirm_word = "APPLY"
    /\ ~do_rename_files /\ file_rename_candidates # {}
    /\ ~do_change_contents /\ content_candidates # {}
    /\ do_rename_folders /\ LinesOf({"RENAMED FOLDER"}) # {}
    /\ LinesOf({"TOTAL"}) # {}
====
